---- MODULE Spec2Model ----
(***************************************************************************)
(* TaskFlow backend: the route handlers of routes/auth.js, routes/tasks.js *)
(* routes/family.js and routes/dashboard.js over the relational store.     *)
(* Every request runs in a request slot; a handler with several awaited    *)
(* queries is several steps, so that requests interleave at the awaits.    *)
(***************************************************************************)
EXTENDS Integers, Sequences, FiniteSets, TLC

\* ------------------------------------------------------------------ bounds
NumReqs == 2        \* request slots: requests that can be in flight at once
MaxFamilies == 2    \* families rows ever inserted
MaxFTasks == 1      \* family_tasks rows ever inserted
MaxTasks == 2       \* tasks rows ever inserted
MaxWeek == 2        \* weeks the clock advances through
MaxUsers == 2       \* users rows ever inserted

Reqs == 1..NumReqs
TwoReqs == {1, 2}   \* the slots of the specifications that run two requests at once
Users == 1..3       \* ids of the authenticated users (req.user.id)
NoUser == 0         \* a missing / NULL user id

\* ------------------------------------------------------------- characters
Space == " "
Lower == <<"a", "b", "c">>
Upper == <<"A", "B", "C">>

\* String.prototype.toUpperCase on one character
UpperChar(c) ==
  IF \E i \in 1..Len(Lower) : Lower[i] = c
  THEN Upper[CHOOSE i \in 1..Len(Lower) : Lower[i] = c]
  ELSE c

toUpperCase(s) == [i \in 1..Len(s) |-> UpperChar(s[i])]

RECURSIVE trimStart(_)
trimStart(s) ==
  IF s # <<>> /\ Head(s) = Space THEN trimStart(Tail(s)) ELSE s

RECURSIVE trimEnd(_)
trimEnd(s) ==
  IF s # <<>> /\ s[Len(s)] = Space THEN trimEnd(SubSeq(s, 1, Len(s) - 1)) ELSE s

\* String.prototype.trim
trim(s) == trimEnd(trimStart(s))

\* the codes generateInvitationCode can return: upper-case, one per family
CodePool == { <<Upper[i], "1">> : i \in 1..MaxFamilies }

\* invitationCode values a join request may carry
JoinCodes ==
  { <<"a", "1">>, <<Space, "b", "1", Space>>, <<"1", "1">>, <<Space>>, <<>> }

\* ----------------------------------------------------------------- values
Statuses == {"pending", "completed", "in_progress"}
Absent == "undefined"     \* a body field that was not sent
NULL == "NULL"            \* SQL NULL in a text / timestamp column
TS == "timestamp"         \* a non-null timestamp (new Date())
Titles == {"t1", "t2"}
PrioInputs == {0, 2}      \* 0: priority not sent (falsy)

NoArg == [id |-> 0, code |-> <<>>, title |-> "", priority |-> 0,
          status |-> Absent, assigned_to |-> NoUser, week |-> 0,
          username |-> "", email |-> ""]
NoOut == <<>>             \* a response body that carries no counts
IdleReq == [op |-> "none", user |-> NoUser, pc |-> "idle", resp |-> "none",
            arg |-> NoArg, out |-> NoOut]

VARIABLES
  families,      \* families rows: [id, created_by, invitation_code]
  nextFamilyId,  \* families.id sequence
  members,       \* family_members rows: [id, family_id, user_id]
  nextMemberId,  \* family_members.id sequence
  ftasks,        \* family_tasks rows
  nextFTaskId,   \* family_tasks.id sequence
  txOwner,       \* the request whose transaction is open (0: none)
  tasks,         \* tasks rows (personal tasks)
  nextTaskId,    \* tasks.id sequence
  week,          \* the clock: the index of the current calendar week
  users,         \* users rows: [id, username, email]
  nextUserId,    \* users.id sequence
  resetTokens,   \* password_reset_tokens: the user_ids that hold a token
  req            \* the request slots

vars == <<families, nextFamilyId, members, nextMemberId, ftasks, nextFTaskId,
          txOwner, tasks, nextTaskId, week, users, nextUserId, resetTokens, req>>

dbFamily == <<families, nextFamilyId, members, nextMemberId>>
dbFTasks == <<ftasks, nextFTaskId>>
dbTasks == <<tasks, nextTaskId>>
dbUsers == <<users, nextUserId, resetTokens>>

\* -------------------------------------------------------- request slots
Free(r) == req[r].pc \in {"idle", "done"}

\* a request is served in the first slot that holds no request in flight
Accepts(r) == Free(r) /\ \A q \in 1..(r - 1) : ~Free(q)

\* the slots when a request arrives in slot r: the responses sent before are
\* gone, the requests in flight stay
Arrive(r, new) ==
  req' = [q \in Reqs |-> IF q = r THEN new ELSE IF Free(q) THEN IdleReq ELSE req[q]]

Issue(r, op, u, pc, arg) ==
  Arrive(r, [op |-> op, user |-> u, pc |-> pc, resp |-> "none",
             arg |-> arg, out |-> NoOut])

Respond(r, resp) ==
  req' = [req EXCEPT ![r].pc = "done", ![r].resp = resp,
                     ![r].arg = [NoArg EXCEPT !.code = req[r].arg.code,
                                              !.id = req[r].arg.id]]

Goto(r, pc) == req' = [req EXCEPT ![r].pc = pc]

\* a request answered in the step it arrives in
AnswerOut(r, op, u, arg, resp, out) ==
  Arrive(r, [op |-> op, user |-> u, pc |-> "done", resp |-> resp,
             arg |-> arg, out |-> out])

Answer(r, op, u, arg, resp) == AnswerOut(r, op, u, arg, resp, NoOut)

\* ------------------------------------------------- config/database.js
\* withTransaction(callback): BEGIN, the callback on one client, COMMIT, or
\* ROLLBACK when the callback throws.  The transactions of the family routes
\* are serial: one is open at a time, and its writes appear at COMMIT.
TxBegin(r) ==
  /\ req[r].pc = "begin"
  /\ txOwner = 0
  /\ txOwner' = r
  /\ Goto(r, "check")
  /\ UNCHANGED <<dbFamily, dbFTasks, dbTasks, week, dbUsers>>

TxEnd == txOwner' = 0

\* utils/helpers.js generateInvitationCode(): an upper-case code no family has
FreshCodes == CodePool \ { f.invitation_code : f \in families }

\* ------------------------------------------------- routes/family.js
\* SELECT id FROM family_members WHERE user_id = $1
existingMember(u) == { m \in members : m.user_id = u }

AlreadyMember_NoCheck(u) == FALSE

\* existingMember.rows.length > 0
AlreadyMember(u) == existingMember(u) # {}

\* !invitationCode || invitationCode.trim().length === 0
CodeMissing(code) == Len(code) = 0 \/ Len(trim(code)) = 0

NormalizeCode_NoUpper(code) == trim(code)

\* the value the join query compares invitation_code with
NormalizeCode(code) == toUpperCase(trim(code))

\* SELECT * FROM families WHERE invitation_code = $1
familyByCode(code) ==
  { f \in families : f.invitation_code = NormalizeCode(code) }

\* SELECT f.* FROM families f JOIN family_members fm ... WHERE fm.user_id = $1
familyOf(u) ==
  { f \in families : \E m \in members : m.family_id = f.id /\ m.user_id = u }

InFlightCreates == { r \in Reqs : req[r].op = "create" /\ ~Free(r) }

\* POST /create: the request arrives
PostCreate(r, u) ==
  /\ Accepts(r)
  /\ (nextFamilyId - 1) + Cardinality(InFlightCreates) < MaxFamilies
  /\ Issue(r, "create", u, "begin", NoArg)
  /\ UNCHANGED <<dbFamily, dbFTasks, txOwner, dbTasks, week, dbUsers>>

\* POST /create: the membership check inside the transaction
CreateCheck(r) ==
  /\ req[r].op = "create" /\ req[r].pc = "check"
  /\ IF AlreadyMember(req[r].user)
     THEN Respond(r, "AlreadyMember") /\ TxEnd
     ELSE Goto(r, "insert") /\ UNCHANGED txOwner
  /\ UNCHANGED <<dbFamily, dbFTasks, dbTasks, week, dbUsers>>

\* POST /create: both INSERTs and the COMMIT
CreateInsert(r) ==
  /\ req[r].op = "create" /\ req[r].pc = "insert"
  /\ \E code \in FreshCodes :
       families' = families \cup
         {[id |-> nextFamilyId, created_by |-> req[r].user,
           invitation_code |-> code]}
  /\ nextFamilyId' = nextFamilyId + 1
  /\ members' = members \cup
       {[id |-> nextMemberId, family_id |-> nextFamilyId,
         user_id |-> req[r].user]}
  /\ nextMemberId' = nextMemberId + 1
  /\ TxEnd
  /\ Respond(r, "Created")
  /\ UNCHANGED <<dbFTasks, dbTasks, week, dbUsers>>

\* the INSERT of the create transaction that the store fails
CreateSteps == {"families", "family_members"}

\* the families rows the transaction has written when the INSERT at step throws
writtenFamilies(r, step, code) ==
  IF step = "family_members"
  THEN {[id |-> nextFamilyId, created_by |-> req[r].user, invitation_code |-> code]}
  ELSE {}

\* ROLLBACK: of the rows the transaction wrote, the ones that stay
Rollback(rows) == {}

onClient_MembersOnly == {"family_members"}

\* the INSERTs of POST /create issued with client.query, on the transaction's
\* client (a statement issued on the pool would commit on its own)
onClient == {"families", "family_members"}

\* POST /create: an INSERT throws, the transaction rolls back and the error
\* handler answers; a families id handed out is not handed back
CreateAbort(r, step) ==
  /\ req[r].op = "create" /\ req[r].pc = "insert"
  /\ \E code \in FreshCodes :
       LET written == writtenFamilies(r, step, code) IN
       families' = families \cup
         (IF "families" \in onClient THEN Rollback(written) ELSE written)
  /\ nextFamilyId' = IF step = "family_members" THEN nextFamilyId + 1
                                                ELSE nextFamilyId
  /\ UNCHANGED <<members, nextMemberId>>
  /\ TxEnd
  /\ Respond(r, "ServerError")
  /\ UNCHANGED <<dbFTasks, dbTasks, week, dbUsers>>

\* POST /join: the request arrives; a blank code is answered at once
PostJoin(r, u, code) ==
  /\ Accepts(r)
  /\ IF CodeMissing(code)
     THEN Answer(r, "join", u, [NoArg EXCEPT !.code = code], "CodeRequired")
     ELSE Issue(r, "join", u, "begin", [NoArg EXCEPT !.code = code])
  /\ UNCHANGED <<dbFamily, dbFTasks, txOwner, dbTasks, week, dbUsers>>

\* POST /join: the membership check inside the transaction
JoinCheck(r) ==
  /\ req[r].op = "join" /\ req[r].pc = "check"
  /\ IF AlreadyMember(req[r].user)
     THEN Respond(r, "AlreadyMember") /\ TxEnd
     ELSE Goto(r, "lookup") /\ UNCHANGED txOwner
  /\ UNCHANGED <<dbFamily, dbFTasks, dbTasks, week, dbUsers>>

\* POST /join: the family is looked up by the normalized code
JoinLookup(r) ==
  /\ req[r].op = "join" /\ req[r].pc = "lookup"
  /\ LET familyResult == familyByCode(req[r].arg.code) IN
     IF familyResult = {}
     THEN Respond(r, "InvalidCode") /\ TxEnd
     ELSE /\ req' = [req EXCEPT ![r].pc = "insert",
                                ![r].arg.id = (CHOOSE f \in familyResult : TRUE).id]
          /\ UNCHANGED txOwner
  /\ UNCHANGED <<dbFamily, dbFTasks, dbTasks, week, dbUsers>>

\* POST /join: the membership INSERT and the COMMIT
JoinInsert(r) ==
  /\ req[r].op = "join" /\ req[r].pc = "insert"
  /\ members' = members \cup
       {[id |-> nextMemberId, family_id |-> req[r].arg.id,
         user_id |-> req[r].user]}
  /\ nextMemberId' = nextMemberId + 1
  /\ TxEnd
  /\ Respond(r, "Joined")
  /\ UNCHANGED <<families, nextFamilyId, dbFTasks, dbTasks, week, dbUsers>>

\* utils/helpers.js getCurrentWeekStart(): the bucket of the current week
getCurrentWeekStart == week

\* the clock passes into the next calendar week
AdvanceWeek ==
  /\ week < MaxWeek
  /\ week' = week + 1
  /\ UNCHANGED <<dbFamily, dbFTasks, txOwner, dbTasks, dbUsers, req>>

\* ---------------------------------------- routes/family.js: family tasks
\* the request bodies of POST /tasks and PUT /tasks/:taskId
FTaskIds == 1..MaxFTasks
CreateTitles == {"", "t1"}
UpdateTitles == {"t2"}
UpdatePrios == {2}

\* the columns the INSERT leaves to the table's defaults
FamilyTaskDefaults == [status |-> "pending", completed_at |-> NULL]

\* POST /tasks: validation, the leader check and the INSERT
PostFamilyTask(r, u, title, priority, assigned_to) ==
  /\ Accepts(r)
  /\ LET familyResult == familyOf(u) IN
     IF title = ""
     THEN Answer(r, "ftcreate", u, NoArg, "TitleRequired") /\ UNCHANGED dbFTasks
     ELSE IF assigned_to = NoUser
     THEN Answer(r, "ftcreate", u, NoArg, "AssigneeRequired") /\ UNCHANGED dbFTasks
     ELSE IF familyResult = {}
     THEN Answer(r, "ftcreate", u, NoArg, "NoFamily") /\ UNCHANGED dbFTasks
     ELSE LET family == CHOOSE f \in familyResult : TRUE IN
       IF family.created_by # u
       THEN Answer(r, "ftcreate", u, NoArg, "NotLeader") /\ UNCHANGED dbFTasks
       ELSE /\ nextFTaskId <= MaxFTasks
            /\ ftasks' = ftasks \cup
                 {[id |-> nextFTaskId, family_id |-> family.id, created_by |-> u,
                   title |-> title,
                   priority |-> IF priority = 0 THEN 1 ELSE priority,
                   status |-> FamilyTaskDefaults.status,
                   assigned_to |-> assigned_to,
                   week_start |-> getCurrentWeekStart,
                   completed_at |-> FamilyTaskDefaults.completed_at]}
            /\ nextFTaskId' = nextFTaskId + 1
            /\ Answer(r, "ftcreate", u, NoArg, "TaskCreated")
  /\ UNCHANGED <<dbFamily, txOwner, dbTasks, week, dbUsers>>

\* PUT /tasks/:taskId: the request arrives
PutFamilyTask(r, u, id, title, priority, status, assigned_to) ==
  /\ Accepts(r)
  /\ Issue(r, "ftupdate", u, "ftcheck",
           [NoArg EXCEPT !.id = id, !.title = title, !.priority = priority,
                         !.status = status, !.assigned_to = assigned_to])
  /\ UNCHANGED <<dbFamily, dbFTasks, txOwner, dbTasks, week, dbUsers>>

\* SELECT ft.*, f.created_by as family_leader ... WHERE ft.id = $1 AND fm.user_id = $2
taskForMember(id, u) ==
  { t \in ftasks :
      /\ t.id = id
      /\ \E f \in families : f.id = t.family_id
      /\ \E m \in members : m.family_id = t.family_id /\ m.user_id = u }

family_leader(t) == (CHOOSE f \in families : f.id = t.family_id).created_by

UpdateForbidden_Skipped(t, u) == FALSE

\* task.family_leader !== req.user.id && task.assigned_to !== req.user.id
UpdateForbidden(t, u) == family_leader(t) # u /\ t.assigned_to # u

completedAt_UnlessPending(status) == IF status \in {"pending", Absent} THEN NULL ELSE TS

\* status === "completed" ? new Date() : null
completedAt(status) == IF status = "completed" THEN TS ELSE NULL

\* a body field bound to a text column: undefined is stored as NULL
Stored(v) == IF v = Absent THEN NULL ELSE v

\* PUT /tasks/:taskId: the task is read and the requester checked
FamilyUpdateCheck(r) ==
  /\ req[r].op = "ftupdate" /\ req[r].pc = "ftcheck"
  /\ LET taskResult == taskForMember(req[r].arg.id, req[r].user) IN
     IF taskResult = {}
     THEN Respond(r, "TaskNotFound")
     ELSE IF UpdateForbidden(CHOOSE t \in taskResult : TRUE, req[r].user)
     THEN Respond(r, "Forbidden")
     ELSE Goto(r, "ftwrite")
  /\ UNCHANGED <<dbFamily, dbFTasks, txOwner, dbTasks, week, dbUsers>>

\* UPDATE family_tasks SET ... WHERE id = $7
updateFamilyTask(t, a) ==
  [t EXCEPT !.title = a.title, !.priority = a.priority,
            !.status = Stored(a.status), !.assigned_to = a.assigned_to,
            !.completed_at = completedAt(a.status)]

\* PUT /tasks/:taskId: the UPDATE
FamilyUpdateWrite(r) ==
  /\ req[r].op = "ftupdate" /\ req[r].pc = "ftwrite"
  /\ ftasks' = { IF t.id = req[r].arg.id THEN updateFamilyTask(t, req[r].arg) ELSE t
                 : t \in ftasks }
  /\ Respond(r, "TaskUpdated")
  /\ UNCHANGED <<dbFamily, nextFTaskId, txOwner, dbTasks, week, dbUsers>>

\* DELETE /tasks/:taskId: only the leader of the task's family deletes it
DeleteFamilyTask(r, u, id) ==
  /\ Accepts(r)
  /\ LET taskResult ==
           { t \in ftasks : t.id = id /\
               \E f \in families : f.id = t.family_id /\ f.created_by = u } IN
     IF taskResult = {}
     THEN Answer(r, "ftdelete", u, NoArg, "TaskNotFound") /\ UNCHANGED ftasks
     ELSE /\ ftasks' = { t \in ftasks : t.id # id }
          /\ Answer(r, "ftdelete", u, NoArg, "TaskDeleted")
  /\ UNCHANGED <<dbFamily, nextFTaskId, txOwner, dbTasks, week, dbUsers>>

\* ------------------------------------------------------ routes/tasks.js
TaskIds == 1..MaxTasks

activeTasks_All(u) == { t \in tasks : t.user_id = u }

\* WHERE user_id = $1 AND archived = FALSE
activeTasks(u) == { t \in tasks : t.user_id = u /\ ~t.archived }

\* CASE WHEN status = 'pending' THEN 0 ELSE 1 END
pendingFirst(t) == IF t.status = "pending" THEN 0 ELSE 1

\* ORDER BY pendingFirst, priority DESC, created_at DESC; the rows were
\* created in the order of their ids
listedBefore(a, b) ==
  \/ pendingFirst(a) < pendingFirst(b)
  \/ pendingFirst(a) = pendingFirst(b) /\ a.priority > b.priority
  \/ pendingFirst(a) = pendingFirst(b) /\ a.priority = b.priority /\ a.id > b.id

\* result.rows, each row written as its id
listRows(rows) ==
  LET n == Cardinality(rows)
      ids == { t.id : t \in rows }
      row(id) == CHOOSE t \in rows : t.id = id IN
  CHOOSE s \in [1..n -> ids] :
    \A i, j \in 1..n : i < j => listedBefore(row(s[i]), row(s[j]))

\* GET /: the active personal tasks of the requester
GetTasks(r, u) ==
  /\ Accepts(r)
  /\ AnswerOut(r, "tlist", u, NoArg, "Tasks", listRows(activeTasks(u)))
  /\ UNCHANGED <<dbFamily, dbFTasks, txOwner, dbTasks, week, dbUsers>>

\* POST /: the INSERT; validateTask has let the body through
PostTask(r, u, title, priority, status) ==
  /\ Accepts(r)
  /\ nextTaskId <= MaxTasks
  /\ tasks' = tasks \cup
       {[id |-> nextTaskId, user_id |-> u, title |-> title,
         priority |-> IF priority = 0 THEN 1 ELSE priority,
         status |-> IF status = Absent THEN "pending" ELSE status,
         week_start |-> getCurrentWeekStart, archived |-> FALSE,
         completed_at |-> completedAt(status)]}
  /\ nextTaskId' = nextTaskId + 1
  /\ Answer(r, "tcreate", u, NoArg, "TaskCreated")
  /\ UNCHANGED <<dbFamily, dbFTasks, txOwner, week, dbUsers>>

\* PUT /:id: the request arrives
PutTask(r, u, id, title, priority, status) ==
  /\ Accepts(r)
  /\ Issue(r, "tupdate", u, "tcheck",
           [NoArg EXCEPT !.id = id, !.title = title, !.priority = priority,
                         !.status = status])
  /\ UNCHANGED <<dbFamily, dbFTasks, txOwner, dbTasks, week, dbUsers>>

ownTask_AnyOwner(id, u) == { t \in tasks : t.id = id }

\* SELECT * FROM tasks WHERE id = $1 AND user_id = $2
ownTask(id, u) == { t \in tasks : t.id = id /\ t.user_id = u }

\* PUT /:id: the ownership check
TaskUpdateCheck(r) ==
  /\ req[r].op = "tupdate" /\ req[r].pc = "tcheck"
  /\ IF ownTask(req[r].arg.id, req[r].user) = {}
     THEN Respond(r, "TaskNotFound")
     ELSE Goto(r, "twrite")
  /\ UNCHANGED <<dbFamily, dbFTasks, txOwner, dbTasks, week, dbUsers>>

\* UPDATE tasks SET ... WHERE id = $6 AND user_id = $7
updateTask(t, a) ==
  [t EXCEPT !.title = a.title, !.priority = a.priority,
            !.status = Stored(a.status), !.completed_at = completedAt(a.status)]

\* PUT /:id: the UPDATE; res.json(result.rows[0]) is empty when no row is left
TaskUpdateWrite(r) ==
  /\ req[r].op = "tupdate" /\ req[r].pc = "twrite"
  /\ LET hit == ownTask(req[r].arg.id, req[r].user) IN
     /\ tasks' = { IF t \in hit THEN updateTask(t, req[r].arg) ELSE t : t \in tasks }
     /\ Respond(r, IF hit = {} THEN "EmptyBody" ELSE "TaskUpdated")
  /\ UNCHANGED <<dbFamily, dbFTasks, txOwner, nextTaskId, week, dbUsers>>

\* DELETE /:id: DELETE ... WHERE id = $1 AND user_id = $2 RETURNING id
DeleteTask(r, u, id) ==
  /\ Accepts(r)
  /\ LET result == ownTask(id, u) IN
     /\ tasks' = tasks \ result
     /\ Answer(r, "tdelete", u, [NoArg EXCEPT !.id = id],
               IF result = {} THEN "TaskNotFound" ELSE "TaskDeleted")
  /\ UNCHANGED <<dbFamily, dbFTasks, txOwner, nextTaskId, week, dbUsers>>

archivable_ThisWeek(u, weekStart) ==
  { t \in tasks : t.user_id = u /\ t.week_start < weekStart /\ ~t.archived }

\* WHERE user_id = $1 AND week_start < $2 AND archived = FALSE, $2 the week
\* before weekStart
archivable(u, weekStart) ==
  { t \in tasks : t.user_id = u /\ t.week_start < weekStart - 1 /\ ~t.archived }

\* POST /archive
ArchiveTasks(r, u) ==
  /\ Accepts(r)
  /\ LET weekStart == getCurrentWeekStart
         result == archivable(u, weekStart) IN
     /\ tasks' = { IF t \in result THEN [t EXCEPT !.archived = TRUE] ELSE t
                   : t \in tasks }
     /\ AnswerOut(r, "archive", u, [NoArg EXCEPT !.week = weekStart],
                  "Archived", <<Cardinality(result)>>)
  /\ UNCHANGED <<dbFamily, dbFTasks, txOwner, nextTaskId, week, dbUsers>>

\* ---------------------------------------------------- routes/dashboard.js
\* FROM tasks WHERE user_id = $1 AND archived = FALSE
currentWeekRows(u) == { t \in tasks : t.user_id = u /\ ~t.archived }

\* COUNT(*), COUNT(CASE WHEN status = 'completed' ...), COUNT(... 'pending' ...)
currentWeekResult(u) ==
  LET rows == currentWeekRows(u) IN
  << Cardinality(rows),
     Cardinality({ t \in rows : t.status = "completed" }),
     Cardinality({ t \in rows : t.status = "pending" }) >>

\* GET /stats: the currentWeek part of the response
GetStats(r, u) ==
  /\ Accepts(r)
  /\ AnswerOut(r, "stats", u, NoArg, "Stats", currentWeekResult(u))
  /\ UNCHANGED <<dbFamily, dbFTasks, txOwner, dbTasks, week, dbUsers>>

\* -------------------------------------------------------- routes/auth.js
notAuth == <<dbFamily, dbFTasks, txOwner, dbTasks, week>>

Usernames == {"ann", "bob"}
Emails == {"ann@x", "bob@x"}

InFlightRegisters == { r \in Reqs : req[r].op = "register" /\ ~Free(r) }

\* POST /register: the request arrives; validateRegistration has let it through
PostRegister(r, username, email) ==
  /\ Accepts(r)
  /\ (nextUserId - 1) + Cardinality(InFlightRegisters) < MaxUsers
  /\ Issue(r, "register", NoUser, "rcheck",
           [NoArg EXCEPT !.username = username, !.email = email])
  /\ UNCHANGED <<notAuth, dbUsers>>

\* SELECT id FROM users WHERE email = $1 OR username = $2
existingUser(username, email) ==
  { u \in users : u.email = email \/ u.username = username }

\* POST /register: the check for an existing user
RegisterCheck(r) ==
  /\ req[r].op = "register" /\ req[r].pc = "rcheck"
  /\ IF existingUser(req[r].arg.username, req[r].arg.email) # {}
     THEN Respond(r, "UserExists")
     ELSE Goto(r, "rinsert")
  /\ UNCHANGED <<notAuth, dbUsers>>

\* the users table: username and email are unique
UniqueViolation(username, email) ==
  \E u \in users : u.email = email \/ u.username = username

\* POST /register: bcrypt.hash, then the INSERT
RegisterInsert(r) ==
  /\ req[r].op = "register" /\ req[r].pc = "rinsert"
  /\ IF UniqueViolation(req[r].arg.username, req[r].arg.email)
     THEN Respond(r, "DatabaseError") /\ UNCHANGED dbUsers
     ELSE /\ users' = users \cup
               {[id |-> nextUserId, username |-> req[r].arg.username,
                 email |-> req[r].arg.email]}
          /\ nextUserId' = nextUserId + 1
          /\ Goto(r, "rmail")
          /\ UNCHANGED resetTokens
  /\ UNCHANGED notAuth

\* config/email.js sendEmail: the message is sent, or the call throws
SendEmailOutcomes == {"sent", "throws"}

\* POST /register: generateToken, the awaited welcome email, the 201 response
RegisterEmail(r, outcome) ==
  /\ req[r].op = "register" /\ req[r].pc = "rmail"
  /\ Respond(r, IF outcome = "throws" THEN "ServerError" ELSE "Registered")
  /\ UNCHANGED <<notAuth, dbUsers>>

\* POST /forgot-password: the request arrives
PostForgot(r, email) ==
  /\ Accepts(r)
  /\ IF email = ""
     THEN Answer(r, "forgot", NoUser, NoArg, "EmailRequired")
     ELSE Issue(r, "forgot", NoUser, "flookup", [NoArg EXCEPT !.email = email])
  /\ UNCHANGED <<notAuth, dbUsers>>

\* SELECT id, username, email FROM users WHERE email = $1
userByEmail(email) == { u \in users : u.email = email }

\* POST /forgot-password: the user is looked up
ForgotLookup(r) ==
  /\ req[r].op = "forgot" /\ req[r].pc = "flookup"
  /\ LET result == userByEmail(req[r].arg.email) IN
     IF result = {}
     THEN Respond(r, "ResetSent")
     ELSE req' = [req EXCEPT ![r].pc = "fstore",
                             ![r].arg.id = (CHOOSE u \in result : TRUE).id]
  /\ UNCHANGED <<notAuth, dbUsers>>

\* the awaited INSERT ... ON CONFLICT (user_id) DO UPDATE: stored, or rejected
StoreOutcomes == {"stored", "rejects"}

\* POST /forgot-password: the reset token is stored
ForgotStore(r, outcome) ==
  /\ req[r].op = "forgot" /\ req[r].pc = "fstore"
  /\ IF outcome = "rejects"
     THEN Respond(r, "ServerError") /\ UNCHANGED resetTokens
     ELSE Goto(r, "fmail") /\ resetTokens' = resetTokens \cup {req[r].arg.id}
  /\ UNCHANGED <<notAuth, users, nextUserId>>

\* POST /forgot-password: the awaited reset email, then the generic response
ForgotEmail(r, outcome) ==
  /\ req[r].op = "forgot" /\ req[r].pc = "fmail"
  /\ Respond(r, IF outcome = "throws" THEN "ServerError" ELSE "ResetSent")
  /\ UNCHANGED <<notAuth, dbUsers>>

\* ------------------------------------------------------ specifications
Init ==
  /\ families = {} /\ nextFamilyId = 1
  /\ members = {} /\ nextMemberId = 1
  /\ ftasks = {} /\ nextFTaskId = 1
  /\ txOwner = 0
  /\ tasks = {} /\ nextTaskId = 1
  /\ week = 0
  /\ users = {} /\ nextUserId = 1 /\ resetTokens = {}
  /\ req = [r \in Reqs |-> IdleReq]

\* the family registry alone: two users create and join
RegistryUsers == {1, 2}

NextRegistry ==
  \/ \E r \in Reqs, u \in RegistryUsers : PostCreate(r, u)
  \/ \E r \in Reqs, u \in RegistryUsers, code \in JoinCodes : PostJoin(r, u, code)
  \/ \E r \in Reqs : TxBegin(r)
  \/ \E r \in Reqs : CreateCheck(r)
  \/ \E r \in Reqs : CreateInsert(r)
  \/ \E r \in Reqs : JoinCheck(r)
  \/ \E r \in Reqs : JoinLookup(r)
  \/ \E r \in Reqs : JoinInsert(r)

SpecRegistry == Init /\ [][NextRegistry]_vars

\* the family routes: the registry and the family task ledger; user 1 founds
\* the family, user 2 is invited and user 3 stays outside
FamFounders == {1}
FamJoiners == {2}
FamJoinCodes == { <<"a", "1">> }
FamAssignees == {NoUser, 2, 3}
FamStatuses == {"completed"}

NextFamily ==
  \/ \E r \in TwoReqs, u \in FamFounders : PostCreate(r, u)
  \/ \E r \in TwoReqs, u \in FamJoiners, code \in FamJoinCodes : PostJoin(r, u, code)
  \/ \E r \in TwoReqs : TxBegin(r)
  \/ \E r \in TwoReqs : CreateCheck(r)
  \/ \E r \in TwoReqs : CreateInsert(r)
  \/ \E r \in TwoReqs : JoinCheck(r)
  \/ \E r \in TwoReqs : JoinLookup(r)
  \/ \E r \in TwoReqs : JoinInsert(r)
  \/ \E r \in TwoReqs, u \in Users, title \in CreateTitles, a \in FamAssignees :
       PostFamilyTask(r, u, title, 0, a)
  \/ \E r \in TwoReqs, u \in Users, id \in FTaskIds, title \in UpdateTitles,
        p \in UpdatePrios, s \in FamStatuses, a \in FamAssignees \ {NoUser} :
       PutFamilyTask(r, u, id, title, p, s, a)
  \/ \E r \in TwoReqs : FamilyUpdateCheck(r)
  \/ \E r \in TwoReqs : FamilyUpdateWrite(r)
  \/ \E r \in TwoReqs, u \in Users, id \in FTaskIds : DeleteFamilyTask(r, u, id)

SpecFamily == Init /\ [][NextFamily]_vars

\* the family registry over a store that may fail an INSERT of a create
NextCreate ==
  \/ \E r \in TwoReqs, u \in RegistryUsers : PostCreate(r, u)
  \/ \E r \in TwoReqs, u \in RegistryUsers, code \in FamJoinCodes : PostJoin(r, u, code)
  \/ \E r \in TwoReqs : TxBegin(r)
  \/ \E r \in TwoReqs : CreateCheck(r)
  \/ \E r \in TwoReqs : CreateInsert(r)
  \/ \E r \in TwoReqs, step \in CreateSteps : CreateAbort(r, step)
  \/ \E r \in TwoReqs : JoinCheck(r)
  \/ \E r \in TwoReqs : JoinLookup(r)
  \/ \E r \in TwoReqs : JoinInsert(r)

SpecCreate == Init /\ [][NextCreate]_vars

\* the personal task ledger: two users create, update and delete
LedgerUsers == {1, 2}
LedgerStatuses == {"completed", "in_progress", Absent}

NextLedger ==
  \/ \E r \in TwoReqs, u \in LedgerUsers : PostTask(r, u, "t1", 0, Absent)
  \/ \E r \in TwoReqs, u \in LedgerUsers, id \in TaskIds, s \in {"completed", Absent} :
       PutTask(r, u, id, "t2", 2, s)
  \/ \E r \in TwoReqs : TaskUpdateCheck(r)
  \/ \E r \in TwoReqs : TaskUpdateWrite(r)
  \/ \E r \in TwoReqs, u \in LedgerUsers, id \in TaskIds : DeleteTask(r, u, id)

SpecLedger == Init /\ [][NextLedger]_vars

\* the weekly life of personal tasks: requests arrive one after the other
NextWeekly ==
  \/ \E u \in LedgerUsers, s \in {Absent, "completed"} : PostTask(1, u, "t1", 0, s)
  \/ \E u \in LedgerUsers : ArchiveTasks(1, u)
  \/ \E u \in LedgerUsers : GetStats(1, u)
  \/ \E u \in LedgerUsers, id \in TaskIds : DeleteTask(1, u, id)
  \/ AdvanceWeek

SpecWeekly == Init /\ [][NextWeekly]_vars

\* the personal tasks over the weeks: user 1 creates, updates, lists, archives
\* and deletes, user 2 creates, two requests at a time
NextArchive ==
  \/ \E r \in TwoReqs, u \in LedgerUsers : PostTask(r, u, "t1", 0, Absent)
  \/ \E r \in TwoReqs, id \in TaskIds : PutTask(r, 1, id, "t2", 2, "completed")
  \/ \E r \in TwoReqs : TaskUpdateCheck(r)
  \/ \E r \in TwoReqs : TaskUpdateWrite(r)
  \/ \E r \in TwoReqs : GetTasks(r, 1)
  \/ \E r \in TwoReqs : ArchiveTasks(r, 1)
  \/ \E r \in TwoReqs, id \in TaskIds : DeleteTask(r, 1, id)
  \/ AdvanceWeek

SpecArchive == Init /\ [][NextArchive]_vars

\* every ledger, one request after the other: the family of user 1 and its
\* tasks beside the personal tasks
NextCompletion ==
  \/ \E u \in FamFounders : PostCreate(1, u)
  \/ \E u \in FamJoiners, code \in FamJoinCodes : PostJoin(1, u, code)
  \/ TxBegin(1)
  \/ CreateCheck(1)
  \/ CreateInsert(1)
  \/ JoinCheck(1)
  \/ JoinLookup(1)
  \/ JoinInsert(1)
  \/ \E u \in FamFounders \cup FamJoiners : PostFamilyTask(1, u, "t1", 0, 2)
  \/ \E u \in FamFounders \cup FamJoiners, id \in FTaskIds, s \in LedgerStatuses :
       PutFamilyTask(1, u, id, "t2", 2, s, 2)
  \/ FamilyUpdateCheck(1)
  \/ FamilyUpdateWrite(1)
  \/ \E s \in Statuses \cup {Absent} : PostTask(1, 1, "t1", 0, s)
  \/ \E id \in TaskIds, s \in LedgerStatuses : PutTask(1, 1, id, "t2", 2, s)
  \/ TaskUpdateCheck(1)
  \/ TaskUpdateWrite(1)

SpecCompletion == Init /\ [][NextCompletion]_vars

\* the credential store: registration and password reset requests
NextAuth ==
  \/ \E r \in TwoReqs, n \in Usernames, e \in Emails : PostRegister(r, n, e)
  \/ \E r \in TwoReqs : RegisterCheck(r)
  \/ \E r \in TwoReqs : RegisterInsert(r)
  \/ \E r \in TwoReqs, o \in SendEmailOutcomes : RegisterEmail(r, o)
  \/ \E r \in TwoReqs, e \in Emails \cup {""} : PostForgot(r, e)
  \/ \E r \in TwoReqs : ForgotLookup(r)
  \/ \E r \in TwoReqs, o \in StoreOutcomes : ForgotStore(r, o)
  \/ \E r \in TwoReqs, o \in SendEmailOutcomes : ForgotEmail(r, o)

SpecAuth == Init /\ [][NextAuth]_vars

\* ================================================================ claims
Done(r) == req[r].pc = "done"
Rows(u) == Cardinality({ m \in members : m.user_id = u })
RegistryReq(r) == req[r].op \in {"create", "join"}
Succeeded(r) == Done(r) /\ req[r].resp \in {"Created", "Joined"}

\* C1 as stated: every create or join of a user that passed validation either succeeds or
\* ends with the already-a-member conflict, at most one of a user's requests
\* succeeds, and the user is left with exactly one family_members row.
C1_AsStated ==
  \A r \in Reqs : (Done(r) /\ RegistryReq(r) /\ req[r].resp # "CodeRequired") =>
    /\ req[r].resp \in {"Created", "Joined", "AlreadyMember"}
    /\ Rows(req[r].user) = 1
    /\ \A q \in Reqs \ {r} :
         (Succeeded(r) /\ Succeeded(q)) => req[q].user # req[r].user

\* C1 (amended): under every interleaving of a user's create and join
\* requests the user never has two family_members rows, at most one request
\* succeeds, a request that succeeded or met the conflict leaves exactly one
\* row, a create ends in success or conflict, and a join may also end with
\* the blank-code or the invalid-code error.
C1_OneMembership ==
  /\ \A u \in Users : Rows(u) <= 1
  /\ \A r \in Reqs : (Done(r) /\ RegistryReq(r)) =>
       /\ req[r].resp \in {"Created", "Joined", "AlreadyMember"}
            => Rows(req[r].user) = 1
       /\ req[r].op = "create" => req[r].resp \in {"Created", "AlreadyMember"}
       /\ req[r].op = "join" =>
            req[r].resp \in {"Joined", "AlreadyMember", "InvalidCode", "CodeRequired"}
       /\ \A q \in Reqs \ {r} :
            (Succeeded(r) /\ Succeeded(q)) => req[q].user # req[r].user

\* two requests of one user: one created the family, the other met the conflict
C1_Witness ==
  \E r, q \in Reqs :
    /\ r # q /\ req[r].user = req[q].user
    /\ Done(r) /\ req[r].resp = "Created"
    /\ Done(q) /\ RegistryReq(q) /\ req[q].resp = "AlreadyMember"

\* the code without the blanks around it equals the family's code up to case
SameIgnoringCase(a, b) ==
  /\ Len(a) = Len(b)
  /\ \A i \in 1..Len(a) : UpperChar(a[i]) = UpperChar(b[i])

MatchesFamily(code, f) ==
  \E i, j \in 1..Len(code) :
    /\ i <= j /\ code[i] # Space /\ code[j] # Space
    /\ \A k \in 1..Len(code) : (k < i \/ k > j) => code[k] = Space
    /\ SameIgnoringCase(SubSeq(code, i, j), f.invitation_code)

Matching(code) == { f \in families : MatchesFamily(code, f) }
Blank(code) == \A k \in 1..Len(code) : code[k] = Space
Finishes(r) == ~Free(r) /\ req'[r].pc = "done"

\* C3 as stated: a finished join whose non-blank code matches no family ended
\* with not-found, whoever sent it.
C3_AsStated ==
  \A r \in Reqs :
    (Done(r) /\ req[r].op = "join" /\ ~Blank(req[r].arg.code)
       /\ Matching(req[r].arg.code) = {})
    => req[r].resp = "InvalidCode"

C3_Answered ==
  \A r \in Reqs : (Done(r) /\ req[r].op = "join") =>
    /\ req[r].resp = "CodeRequired" <=> Blank(req[r].arg.code)
    /\ req[r].resp = "Joined" =>
         \E f \in Matching(req[r].arg.code) : \E m \in members :
           m.family_id = f.id /\ m.user_id = req[r].user

C3_Step ==
  \A r \in Reqs : (req[r].op = "join" /\ Finishes(r)) =>
    LET u == req[r].user
        code == req[r].arg.code IN
    /\ req'[r].resp = "AlreadyMember" <=> Rows(u) > 0
    /\ req'[r].resp = "InvalidCode" <=> (Rows(u) = 0 /\ Matching(code) = {})
    /\ req'[r].resp = "Joined" <=> (Rows(u) = 0 /\ Matching(code) # {})
    /\ req'[r].resp = "Joined" =>
         \E f \in Matching(code) :
           { [family_id |-> m.family_id, user_id |-> m.user_id] : m \in members' }
             = { [family_id |-> m.family_id, user_id |-> m.user_id] : m \in members }
                 \cup {[family_id |-> f.id, user_id |-> u]}
    /\ req'[r].resp # "Joined" => members' = members

\* C3 (amended): a join with a blank code fails with the validation error; a
\* join by a user who is already in a family fails with the conflict whatever
\* its code; a join by a user in no family fails with not-found and inserts
\* nothing when its trimmed code matches no family in any letter case, and
\* otherwise succeeds and adds the user to the matching family; memberships
\* are never removed, so a user's join succeeds at most once.
C3_Join == []C3_Answered /\ [][C3_Step /\ members \subseteq members']_vars

\* a user joined with a code whose letter case differs from the stored code
C3_Witness ==
  \E r \in Reqs :
    /\ Done(r) /\ req[r].op = "join" /\ req[r].resp = "Joined"
    /\ \A f \in families : f.invitation_code # req[r].arg.code
    /\ \E q \in Reqs : Done(q) /\ req[q].op = "join" /\ req[q].user = req[r].user
                       /\ req[q].resp = "AlreadyMember"

\* C2: in every reachable state of the ledgers a personal task and a family
\* task have a non-null completed_at exactly when their status is completed.
C2_CompletedAt ==
  /\ \A t \in tasks : (t.completed_at # NULL) <=> (t.status = "completed")
  /\ \A t \in ftasks : (t.completed_at # NULL) <=> (t.status = "completed")

\* a family task an update completed, beside a personal task an update set
\* to another status
C2_Witness ==
  /\ \E t \in ftasks : t.title = "t2" /\ t.status = "completed" /\ t.completed_at = TS
  /\ \E t \in tasks : t.title = "t2" /\ t.status = "in_progress" /\ t.completed_at = NULL

IsMemberOf(u, fid) == \E m \in members : m.user_id = u /\ m.family_id = fid
LeaderOf(fid) == { f.created_by : f \in { g \in families : g.id = fid } }

\* C4: when the check of a family-task update is made, a requester who is a
\* member of the task's family but neither its leader nor the task's assignee
\* is answered Forbidden, a requester who is no member of the task's family
\* (or names no task) is answered NotFound, and both leave family_tasks as it
\* was; nobody else is answered so.
C4_Step ==
  \A r \in Reqs :
    (req[r].op = "ftupdate" /\ req[r].pc = "ftcheck" /\ req'[r] # req[r]) =>
      LET u == req[r].user
          found == { t \in ftasks : t.id = req[r].arg.id /\ IsMemberOf(u, t.family_id) }
          allowed == { t \in found : u \in LeaderOf(t.family_id) \/ t.assigned_to = u }
      IN
      /\ found = {} <=> (req'[r].pc = "done" /\ req'[r].resp = "TaskNotFound")
      /\ (found # {} /\ allowed = {})
           <=> (req'[r].pc = "done" /\ req'[r].resp = "Forbidden")
      /\ ftasks' = ftasks

C4_UpdateGuard == [][C4_Step]_vars

\* one member was refused and an outsider was told the task does not exist,
\* and the task is still as it was created
C4_Witness ==
  \E r, q \in Reqs :
    /\ Done(r) /\ req[r].op = "ftupdate" /\ req[r].resp = "Forbidden"
    /\ Done(q) /\ req[q].op = "ftupdate" /\ req[q].resp = "TaskNotFound"
    /\ \E t \in ftasks :
         /\ t.id = req[r].arg.id /\ t.id = req[q].arg.id /\ t.title = "t1"
         /\ IsMemberOf(req[r].user, t.family_id)
         /\ ~IsMemberOf(req[q].user, t.family_id)

\* C5 as stated: every family task is assigned to a member of its family.
C5_AsStated ==
  \A t \in ftasks : IsMemberOf(t.assigned_to, t.family_id)

\* the step in which slot r answers a request for operation op
Answers(r, op) == req'[r] # req[r] /\ req'[r].op = op /\ req'[r].pc = "done"

\* a user's tasks that are not archived and whose bucket lies strictly before
\* the bucket of the previous week
Lapsed(u) == { t \in tasks : t.user_id = u /\ ~t.archived /\ t.week_start + 1 < week }

C6_Step ==
  \A r \in Reqs : Answers(r, "archive") =>
    LET u == req'[r].user IN
    /\ tasks' = (tasks \ Lapsed(u)) \cup { [t EXCEPT !.archived = TRUE] : t \in Lapsed(u) }
    /\ req'[r].out = <<Cardinality(Lapsed(u))>>
    /\ (Done(r) /\ req[r].op = "archive" /\ req[r].user = u /\ req[r].arg.week = week)
         => (req'[r].out = <<0>> /\ tasks' = tasks)

\* C6: an archive call archives exactly the caller's non-archived tasks whose
\* week_start is strictly before the previous week's bucket and returns their
\* number; an archive call that follows an archive call of the same user in
\* the same week returns 0 and changes no task.
C6_Archive == [][C6_Step]_vars

\* a repeated archive call answered 0 in a week in which the caller's lapsed
\* task is archived already and another user's lapsed task is not
C6_Witness ==
  \E r \in Reqs :
    /\ Done(r) /\ req[r].op = "archive" /\ req[r].out = <<0>> /\ req[r].arg.week = week
    /\ \E t \in tasks : t.user_id = req[r].user /\ t.archived
    /\ \E t \in tasks : t.user_id # req[r].user /\ ~t.archived /\ t.week_start + 1 < week

\* the counts of a user's non-archived tasks of the current week's bucket
CountsOfCurrentWeek(u) ==
  LET rows == { t \in tasks : t.user_id = u /\ ~t.archived /\ t.week_start = week } IN
  << Cardinality(rows),
     Cardinality({ t \in rows : t.status = "completed" }),
     Cardinality({ t \in rows : t.status = "pending" }) >>

\* C7 as stated: the currentWeek counts of a stats response count only the
\* user's non-archived tasks whose week_start is the current week's bucket.
C7_AsStated ==
  [][\A r \in Reqs : Answers(r, "stats") =>
       req'[r].out = CountsOfCurrentWeek(req'[r].user)]_vars

Owns(u, id) == \E t \in tasks : t.id = id /\ t.user_id = u

C10_Step ==
  \A r \in Reqs :
    /\ (req[r].op = "tupdate" /\ req[r].pc = "tcheck" /\ req'[r] # req[r]) =>
         /\ tasks' = tasks
         /\ ~Owns(req[r].user, req[r].arg.id)
              <=> (req'[r].pc = "done" /\ req'[r].resp = "TaskNotFound")
    /\ (req[r].op = "tupdate" /\ req[r].pc = "twrite" /\ req'[r] # req[r]) =>
         /\ \A t \in tasks :
              (t.id # req[r].arg.id \/ t.user_id # req[r].user) => t \in tasks'
         /\ \A t \in tasks' :
              t \in tasks \/ (t.id = req[r].arg.id /\ t.user_id = req[r].user)
         /\ { t.id : t \in tasks' } = { t.id : t \in tasks }
    /\ Answers(r, "tdelete") =>
         LET u == req'[r].user
             id == req'[r].arg.id IN
         /\ ~Owns(u, id) => (req'[r].resp = "TaskNotFound" /\ tasks' = tasks)
         /\ Owns(u, id) =>
              /\ req'[r].resp = "TaskDeleted"
              /\ tasks' = { t \in tasks : t.id # id }

\* C10: an update or delete naming a task the requester does not own is
\* answered NotFound and leaves every task as it was; an update or delete
\* that goes through changes or removes only the named task of the requester,
\* whatever the other users' requests do in between.
C10_OwnTaskOnly == [][C10_Step]_vars

\* user q was refused the update and the delete of another user's task, which
\* that user then updated
C10_Witness ==
  \E r, q \in Reqs :
    /\ Done(r) /\ req[r].op = "tupdate" /\ req[r].resp = "TaskUpdated"
    /\ Done(q) /\ req[q].op \in {"tupdate", "tdelete"} /\ req[q].resp = "TaskNotFound"
    /\ req[q].user # req[r].user /\ req[q].arg.id = req[r].arg.id
    /\ \E t \in tasks : t.id = req[r].arg.id /\ t.user_id = req[r].user /\ t.title = "t2"
    /\ \E t \in tasks : t.user_id = req[q].user /\ t.title = "t1"

\* C8 as stated: no two users rows share an email or a username, and every
\* register request either succeeded with a token or was answered with the
\* handler's conflict response.
C8_AsStated ==
  /\ \A u, v \in users : (u.email = v.email \/ u.username = v.username) => u = v
  /\ \A r \in Reqs : (Done(r) /\ req[r].op = "register") =>
       req[r].resp \in {"Registered", "UserExists"}

\* C9 as stated: every forgot-password request with a non-empty email gets
\* the generic response, whether or not the email is a user's.
C9_AsStated ==
  \A r \in Reqs : (Done(r) /\ req[r].op = "forgot" /\ req[r].resp # "EmailRequired") =>
    req[r].resp = "ResetSent"

\* a step of the create request in slot r that is not its success
CreateWithoutSuccess(r) ==
  req'[r] # req[r] /\ req'[r].op = "create" /\ req'[r].resp # "Created"

C11_LeaderIsMember ==
  \A f \in families :
    \E m \in members : m.family_id = f.id /\ m.user_id = f.created_by

C11_Step ==
  \A r \in Reqs :
    /\ CreateWithoutSuccess(r) => (families' = families /\ members' = members)
    /\ (Answers(r, "create") /\ req'[r].resp = "Created") =>
         \E f \in families' \ families :
           /\ families' = families \cup {f} /\ f.created_by = req'[r].user
           /\ \E m \in members' \ members :
                /\ members' = members \cup {m}
                /\ m.family_id = f.id /\ m.user_id = f.created_by

\* C11: family create is all-or-nothing: in every reachable state each
\* families row has the family_members row of its creator, a create that
\* succeeds adds exactly the family and that row, and no step of a create
\* that fails (at the already-a-member check of a user who created or joined
\* before, at the INSERT into families or at the INSERT into family_members)
\* changes the families or the family_members table.
C11_AllOrNothing == []C11_LeaderIsMember /\ [][C11_Step]_vars

\* a family stands, and a create failed at its second INSERT: its families id
\* is used up and its families row is gone
C11_Witness ==
  /\ families # {}
  /\ nextFamilyId - 1 > Cardinality(families)
  /\ \E r \in Reqs :
       Done(r) /\ req[r].op = "create" /\ req[r].resp = "ServerError"

\* the ids of the tasks whose archived flag is TRUE, before and after a step
Archived == { t.id : t \in { x \in tasks : x.archived } }
ArchivedNext == { t.id : t \in { x \in tasks' : x.archived } }
Deletes(id) ==
  \E r \in Reqs : Answers(r, "tdelete") /\ req'[r].arg.id = id
                    /\ req'[r].resp = "TaskDeleted"

C12_Step ==
  /\ \A id \in Archived :
       \/ id \in ArchivedNext
       \/ id \notin { t.id : t \in tasks' } /\ Deletes(id)
  /\ \A t \in tasks' \ tasks : t.id \notin { x.id : x \in tasks } => t.id >= nextTaskId
  /\ \A r \in Reqs : Answers(r, "tlist") =>
       /\ tasks' = tasks
       /\ \A i \in 1..Len(req'[r].out) : req'[r].out[i] \notin Archived
       /\ { req'[r].out[i] : i \in 1..Len(req'[r].out) } =
            { t.id : t \in { x \in tasks : x.user_id = req'[r].user /\ ~x.archived } }

\* C12: once a personal task's archived flag is TRUE, every step of a
\* create, update, archive or list leaves it TRUE: the task is archived in
\* the next state unless that step is the delete of this task, no later row
\* takes its id, and the result of a list holds exactly the requester's tasks
\* that are not archived, so an archived task is never in it.
C12_ArchivedStays == [][C12_Step]_vars

\* an archived task was updated after its archival (the archive request came
\* no later than the update's write), and a list that came after the archival
\* returned the user's other task alone
C12_Witness ==
  \E r, q \in Reqs, t \in tasks :
    /\ t.archived /\ t.title = "t2"
    /\ Done(r) /\ req[r].op = "tupdate" /\ req[r].resp = "TaskUpdated"
    /\ req[r].arg.id = t.id
    /\ Done(q) /\ req[q].op = "tlist" /\ req[q].user = t.user_id
    /\ Len(req[q].out) = 1 /\ req[q].out[1] # t.id

====
